---- MODULE Spec2Model ----
(***************************************************************************)
(* Model of config_manager: Field, Template and BaseConfiguration.         *)
(*                                                                         *)
(* A configuration document is a nested dict.  It is modelled as a         *)
(* function from paths (sequences of keys, <<>> being the document root)   *)
(* to nodes; a node is a tagged value [ty, v].  The key set of the dict at *)
(* path p is the set of last segments of the paths one longer than p that  *)
(* extend p.                                                               *)
(*                                                                         *)
(* Python's None is modelled by the empty sequence / empty string for the  *)
(* optional Template and Field arguments; every test the code makes on     *)
(* them is a truthiness test, which None and the empty value both fail.    *)
(***************************************************************************)
EXTENDS Integers, Sequences, FiniteSets, TLC

VARIABLES
    pc,                                 \* "new" | "validated" | "failed"
    template,                           \* self._template (with check counts below)
    configuration,                      \* self._configuration
    properties,                         \* attributes set on self by setattr
    attribute_name_key_map,             \* self._attribute_name_key_map
    attribute_name_types_map,           \* self._attribute_name_types_map
    attribute_name_requirements_map,    \* self._attribute_name_requirements_map
    check_count,                        \* Template._check_count, per template object
    walk,                               \* history of the construction walk
    last,                               \* the last call made and how it ended
    nops                                \* number of calls made on the object

vars == <<pc, template, configuration, properties, attribute_name_key_map,
          attribute_name_types_map, attribute_name_requirements_map,
          check_count, walk, last, nops>>

\* Number of add_property / amend_property / get_property calls explored.
MaxOps == 2

-----------------------------------------------------------------------------
(* Values *)

StrV(s) == [ty |-> "str", v |-> s]
BoolV(b) == [ty |-> "bool", v |-> IF b THEN "True" ELSE "False"]
IntV(s) == [ty |-> "int", v |-> s]
DictV == [ty |-> "dict", v |-> "{}"]
NoneV == [ty |-> "NoneType", v |-> "None"]
\* an attribute the object has that no binding created (a method, a property)
Member(s) == [ty |-> "member", v |-> s]

\* isinstance(field_value, permitted_types): bool is a subclass of int.
IsInstance(field_value, permitted_types) ==
    \/ field_value.ty \in permitted_types
    \/ field_value.ty = "bool" /\ "int" \in permitted_types

\* The requirement lambdas of the test script, by name.
Requirement(r, x) ==
    CASE r = "is_true" -> x = BoolV(TRUE)
      [] r = "is_false" -> x = BoolV(FALSE)
      [] r = "in_cat_dog" -> x \in {StrV("cat"), StrV("dog")}
      [] r = "in_person_animal" -> x \in {StrV("person"), StrV("animal")}
      [] r = "positive" -> x \in {IntV("1"), IntV("2"), BoolV(TRUE)}
      [] OTHER -> FALSE

-----------------------------------------------------------------------------
(* Field and Template objects *)

Field(name, key, types, requirements) ==
    [name |-> name, key |-> key, types |-> types, requirements |-> requirements]

\* A dependent variable: a name, or a list of names given in its place.
DepName(n) == [isList |-> FALSE, names |-> <<n>>]
DepList(ns) == [isList |-> TRUE, names |-> ns]

Template(id, fields, nested_templates, key_prefix, level, dependent_variables, dependent_variables_required_values) ==
    [id |-> id, fields |-> fields, nested_templates |-> nested_templates,
     key_prefix |-> key_prefix, level |-> level,
     dependent_variables |-> dependent_variables,
     dependent_variables_required_values |-> dependent_variables_required_values]

\* Template.template_name: the last segment of the level, None at the root.
template_name(t) ==
    IF t.level # <<>> THEN t.level[Len(t.level)] ELSE "None"

RECURSIVE TemplateIds(_)
TemplateIds(t) ==
    {t.id} \cup UNION {TemplateIds(t.nested_templates[i]) :
                            i \in 1..Len(t.nested_templates)}

-----------------------------------------------------------------------------
(* The template trees validated.  TestTree is the tree of the test script;  *)
(* the others vary it: key prefixes on the conditional children, the        *)
(* two-level tree of the end-to-end scenario in its two possible layouts,   *)
(* two fields bound under one key, and two unconditional prefixed siblings. *)

NameField == Field("name", "name", {"str"}, <<>>)
SurnameField == Field("surname", "surname", {"str"}, <<>>)
TypeField == Field("type", "type", {"str"}, <<"in_person_animal">>)
AnimalTypeField == Field("type", "animal_type", {"str"}, <<"in_cat_dog">>)
WhiskersField(r) == Field("whiskers", "whiskers", {"bool"}, <<r>>)

person_template ==
    Template("person",
             <<Field("num_arms", "num_arms", {"int"}, <<"positive">>),
               Field("num_legs", "num_legs", {"int"}, <<"positive">>)>>,
             <<>>, "", <<"person">>, <<>>, <<>>)

cat_template(prefix, level, deps) ==
    Template("cat", <<WhiskersField("is_true")>>, <<>>, prefix, level,
             deps, IF deps = <<>> THEN <<>> ELSE <<{StrV("cat")}>>)

dog_template(prefix, level, deps) ==
    Template("dog", <<WhiskersField("is_false")>>, <<>>, prefix, level,
             deps, IF deps = <<>> THEN <<>> ELSE <<{StrV("dog")}>>)

animal_template(nested, deps) ==
    Template("animal", <<AnimalTypeField>>, nested, "", <<"animal">>,
             deps, IF deps = <<>> THEN <<>> ELSE <<{StrV("animal")}>>)

base_config_template(fields, nested) ==
    Template("root", fields, nested, "", <<>>, <<>>, <<>>)

OnAnimalType == <<DepName("animal_type")>>
OnType == <<DepName("type")>>

TestTree ==
    base_config_template(<<NameField, SurnameField, TypeField>>,
        <<person_template,
          animal_template(<<cat_template("", <<"animal", "cat">>, OnAnimalType),
                            dog_template("", <<"animal", "dog">>, OnAnimalType)>>,
                          <<>>)>>)

PrefixTree ==
    base_config_template(<<NameField, SurnameField, TypeField>>,
        <<animal_template(<<cat_template("cat", <<"animal", "cat">>, OnAnimalType),
                            dog_template("dog", <<"animal", "dog">>, OnAnimalType)>>,
                          <<>>)>>)

\* The end-to-end tree, the cat template describing the animal level itself.
ScenarioTreeFlat ==
    base_config_template(<<NameField, SurnameField, TypeField>>,
        <<animal_template(<<cat_template("cat", <<"animal">>, OnAnimalType)>>,
                          OnType)>>)

\* The end-to-end tree, the cat template describing a level below animal.
ScenarioTreeDeep ==
    base_config_template(<<NameField, SurnameField, TypeField>>,
        <<animal_template(<<cat_template("cat", <<"animal", "cat">>, OnAnimalType)>>,
                          OnType)>>)

\* Two fields of one template bound under the same key.
SameKeyTree ==
    base_config_template(
        <<NameField, Field("surname", "name", {"str"}, <<>>), TypeField>>, <<>>)

\* Two unconditional siblings with distinct prefixes declaring the same key.
SiblingTree ==
    base_config_template(<<NameField, SurnameField, TypeField>>,
        <<animal_template(<<cat_template("cat", <<"animal", "cat">>, <<>>),
                            dog_template("dog", <<"animal", "dog">>, <<>>)>>,
                          <<>>)>>)

\* A field with two requirements, of which a value may fail either or both.
OrderTree ==
    base_config_template(
        <<Field("name", "name", {"str"}, <<"in_cat_dog", "in_person_animal">>),
          SurnameField, TypeField>>, <<>>)

\* A field constructed with types=[]: Field.__init__ stores tuple(types)
\* whatever its length.
EmptyTypesTree ==
    base_config_template(
        <<Field("name", "name", {}, <<>>), SurnameField, TypeField>>, <<>>)

\* The cat template's dependent variable given as a list of names.
ListDepTree ==
    base_config_template(<<NameField, SurnameField, TypeField>>,
        <<animal_template(
              <<cat_template("", <<"animal", "cat">>,
                             <<DepList(<<"animal_type", "type">>)>>)>>,
              <<>>)>>)

\* A conditional template with an unconditional child.
UnconditionalChildTree ==
    base_config_template(<<NameField, SurnameField, TypeField>>,
        <<animal_template(<<cat_template("", <<"animal", "cat">>, <<>>)>>,
                          OnType)>>)

Trees == {TestTree, PrefixTree, ScenarioTreeFlat, ScenarioTreeDeep,
          SameKeyTree, SiblingTree, OrderTree, EmptyTypesTree, ListDepTree,
          UnconditionalChildTree}

-----------------------------------------------------------------------------
(* Documents *)

DocOf(entries) ==
    [p \in {e[1] : e \in entries} \cup {<<>>} |->
        IF p = <<>> THEN DictV ELSE (CHOOSE e \in entries : e[1] = p)[2]]

Person ==
    {<<<<"name">>, StrV("Ann")>>, <<<<"surname">>, StrV("Lee")>>}

AnimalDoc ==
    DocOf(Person \cup
          {<<<<"type">>, StrV("animal")>>,
           <<<<"animal">>, DictV>>,
           <<<<"animal", "type">>, StrV("cat")>>,
           <<<<"animal", "cat">>, DictV>>,
           <<<<"animal", "cat", "whiskers">>, BoolV(TRUE)>>,
           <<<<"animal", "dog">>, DictV>>,
           <<<<"animal", "dog", "whiskers">>, BoolV(FALSE)>>})

FullDoc ==
    DocOf({<<p, AnimalDoc[p]>> : p \in DOMAIN AnimalDoc \ {<<>>}} \cup
          {<<<<"person">>, DictV>>,
           <<<<"person", "num_arms">>, IntV("2")>>,
           <<<<"person", "num_legs">>, IntV("2")>>})

\* {"name":"Ann","surname":"Lee","type":"animal","animal":{"type":"cat","whiskers":true}}
ScenarioDoc ==
    DocOf(Person \cup
          {<<<<"type">>, StrV("animal")>>,
           <<<<"animal">>, DictV>>,
           <<<<"animal", "type">>, StrV("cat")>>,
           <<<<"animal", "whiskers">>, BoolV(TRUE)>>})

BaseDocs == {AnimalDoc, FullDoc, ScenarioDoc}

IsPrefix(p, q) == Len(p) <= Len(q) /\ SubSeq(q, 1, Len(p)) = p

\* del d[...p]
Delete(d, p) == [q \in {q \in DOMAIN d : ~IsPrefix(p, q)} |-> d[q]]

\* d[...p] = x, for a value x that is not a dict
Assign(d, p, x) ==
    [q \in {q \in DOMAIN d : ~IsPrefix(p, q)} \cup {p} |->
        IF q = p THEN x ELSE d[q]]

EditValues == {StrV("cat"), StrV("dog"), StrV("person"), BoolV(TRUE),
               BoolV(FALSE), IntV("0")}

\* The documents one edit away from d: an entry removed, an entry replaced
\* by another value, a key nothing declares added to one of the dicts.
Edits(d) ==
    {Delete(d, p) : p \in DOMAIN d \ {<<>>}}
    \cup {Assign(d, p, x) : p \in DOMAIN d \ {<<>>}, x \in EditValues}
    \cup {Assign(d, Append(p, "extra"), StrV("x")) :
              p \in {q \in DOMAIN d : d[q] = DictV}}

Docs == BaseDocs \cup UNION {Edits(d) : d \in BaseDocs}

\* data.keys() of the dict at path p
Keys(d, p) ==
    {q[Len(q)] : q \in {q \in DOMAIN d : Len(q) = Len(p) + 1 /\ IsPrefix(p, q)}}

-----------------------------------------------------------------------------
(* BaseConfiguration.  The object is a record of its attributes while a    *)
(* method runs; err is the exception propagating ("none": no exception).   *)
(* The assertions of the code are named after the failure they report:     *)
(*   line  52  MissingFieldError        line 133  UnvalidatedFieldsError   *)
(*   line  77  TypeError                line 188  DuplicateBindingError    *)
(*   line  96  RequirementError         line 237  UnknownPropertyError     *)
(* and the exceptions the interpreter raises keep their names, py_...      *)

\* Attributes every BaseConfiguration has whether or not a key was bound.
OwnAttributes ==
    {"config", "get_property", "add_property", "amend_property",
     "save_configuration", "_configuration", "_template"}

\* hasattr(self, property_name)
HasAttr(self, property_name) ==
    property_name \in DOMAIN self.properties \/ property_name \in OwnAttributes

\* A getattr that hands the value back as text.
GetAttr_as_text(self, property_name) ==
    IF property_name \in DOMAIN self.properties
    THEN StrV(self.properties[property_name].v)
    ELSE Member(property_name)

\* getattr(self, property_name), for an attribute that exists
GetAttr(self, property_name) ==
    IF property_name \in DOMAIN self.properties
    THEN self.properties[property_name]
    ELSE Member(property_name)

\* An exception raised while template t is checked (Outside: by a method
\* called on the constructed object), about the keys in names.
Outside == [id |-> "", level |-> <<>>]
Raise(self, err, t, names) ==
    [self EXCEPT !.err = err, !.err_template = t.id, !.err_level = t.level,
                 !.err_names = names]

Put(map, k, x) == [j \in DOMAIN map \cup {k} |-> IF j = k THEN x ELSE map[j]]

\* _validate_field_type; has_level: the caller passed the level argument,
\* which has no default value.
validate_field_type(field_value, permitted_types, has_level) ==
    IF ~has_level THEN "py_TypeError"
    ELSE IF IsInstance(field_value, permitted_types) THEN "none"
    ELSE "TypeError"

\* A requirement loop that runs to the end and reports the last failure.
RECURSIVE LastFailing(_, _, _)
LastFailing(field_value, field_requirements, r) ==
    IF r > Len(field_requirements) THEN 0
    ELSE LET later == LastFailing(field_value, field_requirements, r + 1)
         IN  IF later # 0 THEN later
             ELSE IF ~Requirement(field_requirements[r], field_value) THEN r
             ELSE 0

\* The loop of lines 94-96 from requirement r on: the requirement whose
\* assertion fails, counted from 1, or 0 when every assertion passes.
RECURSIVE FirstFailing(_, _, _)
FirstFailing(field_value, field_requirements, r) ==
    IF r > Len(field_requirements) THEN 0
    ELSE IF ~Requirement(field_requirements[r], field_value) THEN r
    ELSE FirstFailing(field_value, field_requirements, r + 1)

\* _validate_field_requirements
validate_field_requirements(field_value, field_requirements, has_level) ==
    IF ~has_level THEN "py_TypeError"
    ELSE IF FirstFailing(field_value, field_requirements, 1) # 0
    THEN "RequirementError"
    ELSE "none"

\* _validate_field, for the dict at path data of the document
validate_field(field, document, data) ==
    IF field.name \notin Keys(document, data) THEN "MissingFieldError"
    ELSE LET field_value == document[Append(data, field.name)]
             t == validate_field_type(field_value, field.types, TRUE)
         IN IF t # "none" THEN t
            ELSE validate_field_requirements(field_value, field.requirements, TRUE)

\* The requirements the loop of lines 94-96 calls, in order: it ends at the
\* assertion that fails.  index is the r of enumerate.
requirement_checks(field_value, field_requirements) ==
    LET failing == FirstFailing(field_value, field_requirements, 1)
        n == IF failing = 0 THEN Len(field_requirements) ELSE failing
    IN  [r \in 1..n |-> [check |-> "requirement", index |-> r - 1]]

\* The checks _validate_field makes on a field, in order: line 52, then
\* line 54, then line 55.
validate_field_checks(field, document, data) ==
    LET presence == <<[check |-> "presence", index |-> 0]>>
        type == <<[check |-> "type", index |-> 0]>>
        field_value == document[Append(data, field.name)]
    IN  IF field.name \notin Keys(document, data) THEN presence
        ELSE IF validate_field_type(field_value, field.types, TRUE) # "none"
        THEN presence \o type
        ELSE presence \o type
                 \o requirement_checks(field_value, field.requirements)

\* The r in the message of the failing assertion of line 96.
failing_requirement(field, document, data) ==
    FirstFailing(document[Append(data, field.name)], field.requirements, 1) - 1

\* A _set_property without the guard of lines 186-191.
set_property_overwriting(self, property_name, property_value) ==
    [self EXCEPT !.properties = Put(@, property_name, property_value)]

\* _set_property
set_property(self, property_name, property_value) ==
    IF HasAttr(self, property_name)
    THEN Raise(self, "DuplicateBindingError", Outside, {property_name})
    ELSE [self EXCEPT !.properties = Put(@, property_name, property_value)]

set_attribute_name_key_map(self, property_name, configuration_key_chain) ==
    [self EXCEPT !.attribute_name_key_map =
                      Put(@, property_name, configuration_key_chain)]

set_attribute_name_types_map(self, property_name, types) ==
    [self EXCEPT !.attribute_name_types_map = Put(@, property_name, types)]

set_attribute_name_requirements_map(self, property_name, requirements) ==
    [self EXCEPT !.attribute_name_requirements_map =
                      Put(@, property_name, requirements)]

\* A _template_is_needed whose answer does not depend on the bound values.
template_is_needed_regardless(self, t, i) == "yes"

\* _template_is_needed: all(...) over the zipped pairs, from pair i on.
\* "yes", "no", or the exception getattr raises.
RECURSIVE template_is_needed(_, _, _)
template_is_needed(self, t, i) ==
    IF i > Len(t.dependent_variables) THEN "yes"
    ELSE LET dependent_variable == t.dependent_variables[i]
         IN IF dependent_variable.isList THEN "py_TypeError"
            ELSE IF ~HasAttr(self, dependent_variable.names[1])
            THEN "py_AttributeError"
            ELSE IF GetAttr(self, dependent_variable.names[1])
                        \notin t.dependent_variables_required_values[i]
            THEN "no"
            ELSE template_is_needed(self, t, i + 1)

\* The loop of lines 109-110: data = data.get(level) for each segment, from
\* segment i on.  data is a path of the document, or <<"None">> once a key
\* is missing.  Neither None nor a value that is no dict has a get method.
NonePath == <<"None">>
RECURSIVE resolve(_, _, _, _)
resolve(document, level, i, data) ==
    IF i > Len(level) THEN [err |-> "none", data |-> data]
    ELSE IF data = NonePath \/ document[data] # DictV
    THEN [err |-> "py_AttributeError", data |-> data]
    ELSE resolve(document, level, i + 1,
                 IF Append(data, level[i]) \in DOMAIN document
                 THEN Append(data, level[i]) ELSE NonePath)

\* A walk that forgets the final assertion.
assert_all_checked_forgotten(self, t, fields_to_check) == self

\* lines 131-133: assert not fields_to_check
assert_all_checked(self, t, fields_to_check) ==
    IF fields_to_check # {}
    THEN Raise(self, "UnvalidatedFieldsError", t, fields_to_check)
    ELSE self

RECURSIVE check_and_set_template(_, _)
RECURSIVE field_loop(_, _, _, _, _)
RECURSIVE nested_loop(_, _, _, _)

\* lines 119-126
field_loop(self, t, data, i, fields_to_check) ==
    IF i > Len(t.fields) THEN [self |-> self, fields_to_check |-> fields_to_check]
    ELSE    \* checks and err_index record what _validate_field did on the field
    LET field == t.fields[i]
        checked == validate_field(field, self.configuration, data)
        noted == [self EXCEPT
                     !.checks = validate_field_checks(field, self.configuration, data),
                     !.err_index =
                         IF checked = "RequirementError"
                         THEN failing_requirement(field, self.configuration, data)
                         ELSE -1]
        bound == set_property(noted, field.key,
                              self.configuration[Append(data, field.name)])
        mapped == set_attribute_name_requirements_map(
                      set_attribute_name_types_map(
                          set_attribute_name_key_map(bound, field.key, t.level),
                          field.key, field.types),
                      field.key, field.requirements)
    IN  IF checked # "none"
        THEN [self |-> Raise(noted, checked, t, {field.name}),
              fields_to_check |-> fields_to_check]
        ELSE IF bound.err # "none"
        THEN [self |-> bound, fields_to_check |-> fields_to_check]
        ELSE IF field.name \notin fields_to_check
        THEN [self |-> Raise(mapped, "py_ValueError", t, {field.name}),
              fields_to_check |-> fields_to_check]
        ELSE field_loop(mapped, t, data, i + 1, fields_to_check \ {field.name})

\* lines 127-129
nested_loop(self, t, i, fields_to_check) ==
    IF i > Len(t.nested_templates)
    THEN [self |-> self, fields_to_check |-> fields_to_check]
    ELSE
    LET nested_template == t.nested_templates[i]
        after == check_and_set_template(self, nested_template)
    IN  IF after.err # "none"
        THEN [self |-> after, fields_to_check |-> fields_to_check]
        ELSE IF template_name(nested_template) \notin fields_to_check
        THEN [self |-> Raise(after, "py_ValueError", t,
                             {template_name(nested_template)}),
              fields_to_check |-> fields_to_check]
        ELSE nested_loop(after, t, i + 1,
                         fields_to_check \ {template_name(nested_template)})

\* _check_and_set_template.  entered and skipped record the templates whose
\* body (lines 117-133) was run and those found not needed.
check_and_set_template(self, t) ==
    LET found == resolve(self.configuration, t.level, 1, <<>>)
        needed == IF t.dependent_variables = <<>> THEN "yes"
                  ELSE template_is_needed(self, t, 1)
    IN  IF found.err # "none" THEN Raise(self, found.err, t, {})
        ELSE IF needed = "no" THEN [self EXCEPT !.skipped = @ \cup {t.id}]
        ELSE IF needed # "yes" THEN Raise(self, needed, t, {})
        ELSE IF found.data = NonePath \/ self.configuration[found.data] # DictV
        THEN Raise(self, "py_AttributeError", t, {})
        ELSE
        LET entering == [self EXCEPT !.entered = @ \cup {t.id}]
            fields == field_loop(entering, t, found.data, 1,
                                 Keys(self.configuration, found.data))
            nested == nested_loop(fields.self, t, 1, fields.fields_to_check)
        IN  IF fields.self.err # "none" THEN fields.self
            ELSE IF nested.self.err # "none" THEN nested.self
            ELSE assert_all_checked(nested.self, t, nested.fields_to_check)

\* get_property: getattr raises AttributeError for a missing attribute.
get_property(self, property_name) ==
    IF ~HasAttr(self, property_name)
    THEN [self |-> Raise(self, "UnknownPropertyError", Outside, {property_name}),
          ret |-> NoneV]
    ELSE [self |-> self, ret |-> GetAttr(self, property_name)]

\* An add_property that writes the document before binding the property.
add_property_writing_first(self, property_name, property_value) ==
    set_property([self EXCEPT !.configuration =
                                  Assign(@, <<property_name>>, property_value)],
                 property_name, property_value)

\* add_property
add_property(self, property_name, property_value) ==
    LET bound == set_property(self, property_name, property_value)
    IN  IF bound.err # "none" THEN bound
        ELSE [bound EXCEPT !.configuration =
                               Assign(@, <<property_name>>, property_value)]

\* amend_property.  Lines 245-246 call the two validators without their
\* level argument, and line 250 calls a method the class does not define.
amend_property(self, property_name, new_property_value) ==
    IF ~HasAttr(self, property_name)
    THEN Raise(self, "UnknownPropertyError", Outside, {property_name})
    ELSE IF \/ property_name \notin DOMAIN self.attribute_name_key_map
            \/ property_name \notin DOMAIN self.attribute_name_types_map
            \/ property_name \notin DOMAIN self.attribute_name_requirements_map
    THEN Raise(self, "py_KeyError", Outside, {property_name})
    ELSE
    LET permitted_types == self.attribute_name_types_map[property_name]
        field_requirements == self.attribute_name_requirements_map[property_name]
        typed == validate_field_type(new_property_value, permitted_types, FALSE)
        required == validate_field_requirements(new_property_value,
                                                field_requirements, FALSE)
        written == [self EXCEPT
                        !.configuration =
                            Assign(@, <<property_name>>, new_property_value),
                        !.properties =
                            Put(@, property_name, new_property_value)]
    IN  IF typed # "none" THEN Raise(self, typed, Outside, {property_name})
        ELSE IF required # "none"
        THEN Raise(self, required, Outside, {property_name})
        ELSE Raise(written, "py_AttributeError", Outside, {"_maybe_reconfigure"})

-----------------------------------------------------------------------------
(* The state machine: construct a BaseConfiguration from a document and a  *)
(* template tree, then call its methods.                                   *)

OpKeys == {"name", "animal_type", "whiskers", "new", "config"}
OpValues == {StrV("dog"), StrV("Bob"), BoolV(TRUE), BoolV(FALSE), IntV("0")}

NoCall == [op |-> "none", key |-> "", value |-> NoneV, err |-> "none", ret |-> NoneV]

Empty == [k \in {} |-> NoneV]

Self ==
    [configuration |-> configuration, properties |-> properties,
     attribute_name_key_map |-> attribute_name_key_map,
     attribute_name_types_map |-> attribute_name_types_map,
     attribute_name_requirements_map |-> attribute_name_requirements_map,
     err |-> "none", err_template |-> "", err_level |-> <<>>, err_names |-> {},
     err_index |-> -1, checks |-> <<>>, entered |-> {}, skipped |-> {}]

Store(self) ==
    /\ configuration' = self.configuration
    /\ properties' = self.properties
    /\ attribute_name_key_map' = self.attribute_name_key_map
    /\ attribute_name_types_map' = self.attribute_name_types_map
    /\ attribute_name_requirements_map' = self.attribute_name_requirements_map

Init ==
    /\ pc = "new"
    /\ template \in Trees
    /\ configuration \in Docs
    /\ properties = Empty
    /\ attribute_name_key_map = Empty
    /\ attribute_name_types_map = Empty
    /\ attribute_name_requirements_map = Empty
    /\ check_count = [id \in TemplateIds(template) |-> 0]
    /\ walk = [err |-> "none", err_template |-> "", err_level |-> <<>>,
               err_names |-> {}, err_index |-> -1, checks |-> <<>>,
               entered |-> {}, skipped |-> {}]
    /\ last = NoCall
    /\ nops = 0

\* BaseConfiguration.__init__
Validate ==
    /\ pc = "new"
    /\ LET done == check_and_set_template(Self, template)
       IN  /\ Store(done)
           /\ walk' = [err |-> done.err, err_template |-> done.err_template,
                       err_level |-> done.err_level,
                       err_names |-> done.err_names,
                       err_index |-> done.err_index, checks |-> done.checks,
                       entered |-> done.entered, skipped |-> done.skipped]
           /\ pc' = IF done.err = "none" THEN "validated" ELSE "failed"
    /\ UNCHANGED <<template, check_count, last, nops>>

Called(op, key, value, self, ret) ==
    /\ Store(self)
    /\ last' = [op |-> op, key |-> key, value |-> value, err |-> self.err,
                ret |-> ret]
    /\ nops' = nops + 1
    /\ UNCHANGED <<pc, template, check_count, walk>>

AddProperty ==
    /\ pc = "validated" /\ nops < MaxOps
    /\ \E key \in OpKeys, value \in OpValues :
          Called("add_property", key, value, add_property(Self, key, value), NoneV)

AmendProperty ==
    /\ pc = "validated" /\ nops < MaxOps
    /\ \E key \in OpKeys, value \in OpValues :
          Called("amend_property", key, value,
                 amend_property(Self, key, value), NoneV)

GetProperty ==
    /\ pc = "validated" /\ nops < MaxOps
    /\ \E key \in OpKeys :
          LET got == get_property(Self, key)
          IN  Called("get_property", key, NoneV, got.self, got.ret)

Next == Validate \/ AddProperty \/ AmendProperty \/ GetProperty

Spec == Init /\ [][Next]_vars

-----------------------------------------------------------------------------
(* Properties *)

RECURSIVE Subtemplates(_)
Subtemplates(t) ==
    {t} \cup UNION {Subtemplates(t.nested_templates[i]) :
                        i \in 1..Len(t.nested_templates)}

FieldNames(t) == {t.fields[i].name : i \in 1..Len(t.fields)}
ChildNames(t) ==
    {template_name(t.nested_templates[i]) : i \in 1..Len(t.nested_templates)}
ActiveChildNames(t) ==
    {template_name(t.nested_templates[i]) :
        i \in {j \in 1..Len(t.nested_templates) :
                  t.nested_templates[j].id \in walk.entered}}

\* The constructor has returned or raised and no method was called since:
\* configuration is still the document that was validated.
Constructed == pc # "new" /\ nops = 0

\* The keys of t's level that no field of t and no child of t is named after.
Undeclared(t) == Keys(configuration, t.level) \ (FieldNames(t) \cup ChildNames(t))

\* The same, a child counting only when it is active.
UndeclaredByActive(t) ==
    Keys(configuration, t.level) \ (FieldNames(t) \cup ActiveChildNames(t))

Entered == {t \in Subtemplates(template) : t.id \in walk.entered}

\* C1 as stated: a validated level holding a key that is neither a field's
\* name nor the name of an active child makes the construction fail, with
\* UnvalidatedFieldsError naming the key when that is the failure of the level.
C1_Exhaustive_AsClaimed ==
    Constructed =>
        \A t \in Entered :
            UndeclaredByActive(t) # {} =>
                /\ pc = "failed"
                /\ (walk.err = "UnvalidatedFieldsError" /\ walk.err_template = t.id)
                        => UndeclaredByActive(t) \subseteq walk.err_names

\* C1 amended: a validated level holding a key that is neither a field's
\* name nor the name of a child template, active or not, makes the
\* construction fail; when the failure is the level's UnvalidatedFieldsError
\* it names exactly the keys still unclaimed, every such key among them.  The
\* key of an inactive child is accepted.
C1_Exhaustive ==
    Constructed =>
        \A t \in Entered :
            /\ Undeclared(t) # {} => pc = "failed"
            /\ (walk.err = "UnvalidatedFieldsError" /\ walk.err_template = t.id)
                    => /\ Undeclared(t) \subseteq walk.err_names
                       /\ walk.err_names \subseteq Keys(configuration, t.level)
                       /\ walk.err_names \cap FieldNames(t) = {}
                       /\ walk.err_names # {}

\* C1 witness: the root level holds the undeclared key "extra" and the
\* construction failed naming it.
C1_Witness ==
    /\ Constructed
    /\ "extra" \in Undeclared(template)
    /\ walk.err = "UnvalidatedFieldsError"
    /\ walk.err_template = template.id
    /\ "extra" \in walk.err_names

\* The object as it is when __init__ starts on document d.
Fresh(d) ==
    [configuration |-> d, properties |-> Empty,
     attribute_name_key_map |-> Empty, attribute_name_types_map |-> Empty,
     attribute_name_requirements_map |-> Empty,
     err |-> "none", err_template |-> "", err_level |-> <<>>, err_names |-> {},
     err_index |-> -1, checks |-> <<>>, entered |-> {}, skipped |-> {}]

\* The child of animal whose condition on animal_type does not hold.
NonMatching ==
    IF <<"animal", "type">> \in DOMAIN configuration
       /\ configuration[<<"animal", "type">>] = StrV("cat")
    THEN "dog" ELSE "cat"

\* C2: under the trees with children activated on animal_type == "cat" and
\* animal_type == "dog", a document without the non-matching child's entry,
\* valid otherwise (it validates once an entry for that child is put back),
\* is validated.
C2_ConditionalActivation_AsClaimed ==
    (/\ Constructed
     /\ template \in {TestTree, PrefixTree}
     /\ <<"animal", NonMatching>> \notin DOMAIN configuration
     /\ check_and_set_template(
            Fresh(Assign(configuration, <<"animal", NonMatching>>, DictV)),
            template).err = "none")
        => pc = "validated"

\* A call of the named method is the step taken.
Calls(op) == nops' = nops + 1 /\ last'.op = op

\* The keys the fields of the entered templates were bound under, one entry
\* per field.
Bindings ==
    UNION {{<<t.id, i>> : i \in 1..Len(t.fields)} : t \in Entered}
KeyOfBinding(b) ==
    (CHOOSE t \in Subtemplates(template) : t.id = b[1]).fields[b[2]].key

\* Field j of the root template is reached with every field up to it valid
\* in the document and differently named, and its key is the key of an
\* earlier field.
RebindsAt(j) ==
    /\ \A k \in 1..j :
           validate_field(template.fields[k], configuration, <<>>) = "none"
    /\ \A i, k \in 1..j :
           i # k => template.fields[i].name # template.fields[k].name
    /\ \E i \in 1..(j - 1) : template.fields[i].key = template.fields[j].key

\* C3: add_property on a key that is bound, by the walk or by an earlier
\* add_property, fails with DuplicateBindingError and overwrites nothing; a
\* walk that comes to bind a key a second time fails with
\* DuplicateBindingError, so a construction that succeeds has bound no key
\* from two fields; and amend_property on a bound key never fails with
\* DuplicateBindingError.
C3_NoSilentOverwrite ==
    /\ [](pc = "validated" =>
            \A a, b \in Bindings : a # b => KeyOfBinding(a) # KeyOfBinding(b))
    /\ []((Constructed /\ \E j \in 1..Len(template.fields) : RebindsAt(j))
            => pc = "failed" /\ walk.err = "DuplicateBindingError")
    /\ [][(Calls("add_property") /\ last'.key \in DOMAIN properties)
            => /\ last'.err = "DuplicateBindingError"
               /\ properties' = properties]_vars
    /\ [][(Calls("amend_property") /\ last'.key \in DOMAIN properties)
            => last'.err # "DuplicateBindingError"]_vars

\* C3 witness: a key bound by add_property, not by the walk, was given to
\* add_property again and the call failed with DuplicateBindingError.
C3_Witness ==
    /\ last.op = "add_property"
    /\ last.err = "DuplicateBindingError"
    /\ last.key \in DOMAIN properties
    /\ last.key \notin DOMAIN attribute_name_key_map

\* C4: on a constructed object every bound key has an entry in each of the
\* three side maps, and the side maps hold no other key.
C4_SideMaps_AsClaimed ==
    pc = "validated" =>
        /\ DOMAIN attribute_name_key_map = DOMAIN properties
        /\ DOMAIN attribute_name_types_map = DOMAIN properties
        /\ DOMAIN attribute_name_requirements_map = DOMAIN properties

\* The document entry a key was bound from: the level stored for the key,
\* then the name of the field of that level bound under the key.
SourcePath(key) ==
    LET t == CHOOSE t \in Entered :
                 /\ t.level = attribute_name_key_map[key]
                 /\ \E i \in 1..Len(t.fields) : t.fields[i].key = key
        i == CHOOSE i \in 1..Len(t.fields) : t.fields[i].key = key
    IN  Append(t.level, t.fields[i].name)

\* new_property_value has one of the types stored for key / passes every
\* requirement stored for key.
AcceptedType(key, value) == IsInstance(value, attribute_name_types_map[key])
PassesRequirements(key, value) ==
    \A r \in 1..Len(attribute_name_requirements_map[key]) :
        Requirement(attribute_name_requirements_map[key][r], value)

\* C5: amend_property on a key bound by the walk, with a value of a stored
\* type that passes the stored requirements, succeeds; the property and the
\* document entry the key was bound from then hold the value and nothing
\* else changes.
C5_Amend_AsClaimed ==
    [][(/\ Calls("amend_property")
        /\ last'.key \in DOMAIN attribute_name_key_map
        /\ AcceptedType(last'.key, last'.value)
        /\ PassesRequirements(last'.key, last'.value))
          => /\ last'.err = "none"
             /\ properties' = [properties EXCEPT ![last'.key] = last'.value]
             /\ configuration' =
                    [configuration EXCEPT ![SourcePath(last'.key)] = last'.value]]_vars

\* C6: amend_property on a key bound by the walk fails with the type error
\* when the value has none of the stored types (the interpreter's TypeError
\* is taken for it), with RequirementError when it has one but fails a
\* stored requirement; on a name that is no attribute of the object it fails
\* with UnknownPropertyError; a failing call changes neither the bound
\* properties nor the document.
C6_AmendRevalidates_AsClaimed ==
    [][Calls("amend_property") =>
          /\ (last'.key \in DOMAIN attribute_name_key_map
                 /\ ~AcceptedType(last'.key, last'.value))
                => last'.err \in {"TypeError", "py_TypeError"}
          /\ (last'.key \in DOMAIN attribute_name_key_map
                 /\ AcceptedType(last'.key, last'.value)
                 /\ ~PassesRequirements(last'.key, last'.value))
                => last'.err = "RequirementError"
          /\ (last'.key \notin DOMAIN properties /\ last'.key \notin OwnAttributes)
                => last'.err = "UnknownPropertyError"
          /\ last'.err # "none"
                => properties' = properties /\ configuration' = configuration]_vars

\* The key a prefixed template would bind a field under:
\* key_prefix + "_" + key.
PrefixedKey(key_prefix, key) ==
    CASE key_prefix = "cat" /\ key = "whiskers" -> "cat_whiskers"
      [] key_prefix = "dog" /\ key = "whiskers" -> "dog_whiskers"
      [] OTHER -> "prefixed"

\* C7: the fields of a validated template that has a key prefix are bound
\* under prefix_key; the two unconditional siblings of SiblingTree, prefixed
\* cat and dog and both declaring whiskers, validate AnimalDoc without
\* DuplicateBindingError.
C7_KeyPrefix_AsClaimed ==
    /\ (Constructed /\ pc = "validated") =>
          \A t \in Entered : \A i \in 1..Len(t.fields) :
              t.key_prefix # "" =>
                  /\ PrefixedKey(t.key_prefix, t.fields[i].key) \in DOMAIN properties
                  /\ t.fields[i].key \notin DOMAIN properties
    /\ (Constructed /\ template = SiblingTree /\ configuration = AnimalDoc) =>
          /\ pc = "validated"
          /\ {"cat_whiskers", "dog_whiskers"} \subseteq DOMAIN properties

\* C8: ScenarioDoc validates against the two-level tree of the scenario,
\* whichever level its cat template is given, and exactly name, surname,
\* type, animal_type and cat_whiskers are bound, cat_whiskers to true.
C8_Scenario_AsClaimed ==
    (/\ Constructed
     /\ configuration = ScenarioDoc
     /\ template \in {ScenarioTreeFlat, ScenarioTreeDeep})
        => /\ pc = "validated"
           /\ DOMAIN properties =
                  {"name", "surname", "type", "animal_type", "cat_whiskers"}
           /\ properties["cat_whiskers"] = BoolV(TRUE)

\* C9: when the construction has succeeded every template the walk visited,
\* found needed or not, has a check count of 1; no check count ever
\* decreases.
C9_CheckRegistration_AsClaimed ==
    /\ [](pc = "validated" =>
            \A id \in walk.entered \cup walk.skipped : check_count[id] = 1)
    /\ [][\A id \in DOMAIN check_count : check_count'[id] >= check_count[id]]_vars

\* C10 amended: after a successful construction every key bound by the walk
\* holds exactly the value of the document entry it was bound from, and
\* get_property called first returns that value; get_property on a name
\* that is no attribute of the object fails with UnknownPropertyError, and
\* on the name of an attribute the object has without any binding (config,
\* its methods) it returns that attribute.
C10_RoundTrip ==
    /\ [](Constructed /\ pc = "validated" =>
            \A key \in DOMAIN properties :
                /\ key \in DOMAIN attribute_name_key_map
                /\ properties[key] = configuration[SourcePath(key)])
    /\ [][(Calls("get_property") /\ nops = 0) =>
            /\ last'.key \in DOMAIN properties
                  => /\ last'.err = "none"
                     /\ last'.ret = configuration[SourcePath(last'.key)]
            /\ (last'.key \notin DOMAIN properties /\ last'.key \notin OwnAttributes)
                  => last'.err = "UnknownPropertyError"
            /\ last'.key \in OwnAttributes
                  => last'.err = "none" /\ last'.ret = Member(last'.key)]_vars

\* C10 as stated: get_property returns the document's value for a bound key
\* and fails with UnknownPropertyError for every key that was never bound.
C10_RoundTrip_AsClaimed ==
    [][(Calls("get_property") /\ nops = 0) =>
            /\ last'.key \in DOMAIN properties
                  => /\ last'.err = "none"
                     /\ last'.ret = configuration[SourcePath(last'.key)]
            /\ last'.key \notin DOMAIN properties
                  => last'.err = "UnknownPropertyError"]_vars

\* C10 witness: get_property has returned the value of a key bound from a
\* nested level of the document.
C10_Witness ==
    /\ nops = 1
    /\ last.op = "get_property"
    /\ last.err = "none"
    /\ last.key \in DOMAIN attribute_name_key_map
    /\ attribute_name_key_map[last.key] # <<>>
    /\ last.ret = configuration[SourcePath(last.key)]

\* The field of the entered template t that the walk stopped at.
FailedField(t) ==
    t.fields[CHOOSE i \in 1..Len(t.fields) : t.fields[i].name \in walk.err_names]

FieldErrors == {"MissingFieldError", "TypeError", "RequirementError"}

\* The value the document gives field f of template t.
ValueOf(t, f) == configuration[Append(t.level, f.name)]

\* The requirements of f that its value fails, counted from 0.
Failing(t, f) ==
    {r \in 0..(Len(f.requirements) - 1) :
        ~Requirement(f.requirements[r + 1], ValueOf(t, f))}

\* C11: a field that fails validation fails on presence when it is missing,
\* else on type when its value has no accepted type, else on the first
\* requirement its value fails, whose index the error reports; the checks
\* made on it are presence, then type, then the requirements in order, none
\* after the first failure and no requirement on a missing or wrongly typed
\* value.
C11_CheckOrder ==
    (Constructed /\ walk.err \in FieldErrors) =>
        \A t \in Entered :
            t.id = walk.err_template =>
                LET f == FailedField(t)
                    present == f.name \in Keys(configuration, t.level)
                    typed == present /\ IsInstance(ValueOf(t, f), f.types)
                    made == walk.checks
                IN  /\ ~present =>
                        /\ walk.err = "MissingFieldError"
                        /\ made = <<[check |-> "presence", index |-> 0]>>
                    /\ (present /\ ~typed) =>
                        /\ walk.err = "TypeError"
                        /\ made = <<[check |-> "presence", index |-> 0],
                                    [check |-> "type", index |-> 0]>>
                    /\ typed =>
                        /\ walk.err = "RequirementError"
                        /\ Failing(t, f) # {}
                        /\ \A r \in Failing(t, f) : walk.err_index <= r
                        /\ walk.err_index \in Failing(t, f)
                        /\ Len(made) = walk.err_index + 3
                        /\ made[1].check = "presence" /\ made[2].check = "type"
                        /\ \A k \in 3..Len(made) :
                               made[k] = [check |-> "requirement", index |-> k - 3]

\* C11 witness: a present, correctly typed value failed its first and its
\* second requirement, and the error reports the first.
C11_Witness ==
    /\ Constructed
    /\ walk.err = "RequirementError"
    /\ walk.err_template = template.id
    /\ Failing(template, FailedField(template)) = {0, 1}
    /\ walk.err_index = 0

\* C12: no Field with an empty set of accepted types exists in a template
\* tree a configuration is constructed from (its construction has failed),
\* so no TypeError of the walk is about a field that accepts no type.
C12_FieldConstruction_AsClaimed ==
    Constructed =>
        /\ \A t \in Subtemplates(template) : \A i \in 1..Len(t.fields) :
               t.fields[i].types # {}
        /\ walk.err = "TypeError" =>
               \A t \in Entered :
                   t.id = walk.err_template => FailedField(t).types # {}

\* The templates whose activation the walk evaluated: those it entered or
\* skipped, and the one whose evaluation raised on a list of names.
ActivationEvaluated(t) ==
    \/ t.id \in walk.entered \cup walk.skipped
    \/ walk.err = "py_TypeError" /\ walk.err_template = t.id

\* The activation of t as claimed: every dependent variable, a list of names
\* being indexed by t's check count, is bound to one of its required values.
IsActive(t) ==
    \A i \in 1..Len(t.dependent_variables) :
        LET dependent_variable == t.dependent_variables[i]
            name == IF dependent_variable.isList
                    THEN dependent_variable.names[check_count[t.id] + 1]
                    ELSE dependent_variable.names[1]
        IN  /\ name \in DOMAIN properties
            /\ properties[name] \in t.dependent_variables_required_values[i]

\* C13: a template whose activation the walk evaluated is found needed or
\* not needed, and needed exactly when it has no condition or every
\* dependent variable, a list of names being indexed by the check count, is
\* bound to one of its required values.
C13_Activation_AsClaimed ==
    Constructed =>
        \A t \in Subtemplates(template) :
            ActivationEvaluated(t) =>
                /\ t.id \in walk.entered \cup walk.skipped
                /\ t.id \in walk.entered <=> IsActive(t)

\* Some dependent variable of t, a bare name like those before it, is bound
\* to a value outside its required values, those before it being bound to
\* required values.
Inactive(t) ==
    \E i \in 1..Len(t.dependent_variables) :
        /\ \A j \in 1..i :
               /\ ~t.dependent_variables[j].isList
               /\ t.dependent_variables[j].names[1] \in DOMAIN properties
        /\ \A j \in 1..(i - 1) :
               properties[t.dependent_variables[j].names[1]]
                   \in t.dependent_variables_required_values[j]
        /\ properties[t.dependent_variables[i].names[1]]
               \notin t.dependent_variables_required_values[i]

\* Every level above t's own is a dict of the document.
Reachable(t) ==
    \A n \in 0..(Len(t.level) - 1) :
        /\ SubSeq(t.level, 1, n) \in DOMAIN configuration
        /\ configuration[SubSeq(t.level, 1, n)] = DictV

\* C14: the walk visits no descendant of a template it found not needed and
\* raises nothing there; and in every state of the object a visit of a
\* template whose condition does not hold, whatever the document holds at
\* its level, returns without an exception and leaves the bound properties,
\* the side maps and the document as they were.
C14_InactiveSkipped ==
    /\ \A t \in Subtemplates(template) :
           t.id \in walk.skipped =>
               \A d \in Subtemplates(t) :
                   /\ walk.err_template # d.id
                   /\ d # t => d.id \notin walk.entered \cup walk.skipped
    /\ pc # "new" =>
           \A t \in Subtemplates(template) :
               (Inactive(t) /\ Reachable(t)) =>
                   check_and_set_template(Self, t) =
                       [Self EXCEPT !.skipped = {t.id}]

\* C14 witness: the construction succeeded although the level of a template
\* found not needed, which has an unconditional child, holds other keys
\* than the template declares.
C14_Witness ==
    /\ Constructed
    /\ pc = "validated"
    /\ \E t \in Subtemplates(template) :
           /\ t.id \in walk.skipped
           /\ t.nested_templates # <<>>
           /\ t.nested_templates[1].dependent_variables = <<>>
           /\ Keys(configuration, t.level) # FieldNames(t) \cup ChildNames(t)

\* C15: an add_property call that fails, as it does on every bound key,
\* changes no bound property, no side map and nothing in the document; one
\* that succeeds binds its key, which was not bound, to its value, leaves
\* every other property and the side maps alone, and sets the document's
\* top-level entry of that key to the value, every entry under another
\* top-level key staying as it was.
C15_AddPropertyFrame ==
    [][Calls("add_property") =>
          /\ last'.key \in DOMAIN properties => last'.err # "none"
          /\ last'.err # "none" =>
                UNCHANGED <<properties, configuration, attribute_name_key_map,
                            attribute_name_types_map,
                            attribute_name_requirements_map>>
          /\ last'.err = "none" =>
                /\ last'.key \notin DOMAIN properties
                /\ DOMAIN properties' = DOMAIN properties \cup {last'.key}
                /\ properties'[last'.key] = last'.value
                /\ \A k \in DOMAIN properties : properties'[k] = properties[k]
                /\ UNCHANGED <<attribute_name_key_map, attribute_name_types_map,
                               attribute_name_requirements_map>>
                /\ <<last'.key>> \in DOMAIN configuration'
                /\ configuration'[<<last'.key>>] = last'.value
                /\ \A p \in (DOMAIN configuration \cup DOMAIN configuration') :
                       (p = <<>> \/ p[1] # last'.key) =>
                           /\ p \in DOMAIN configuration
                           /\ p \in DOMAIN configuration'
                           /\ configuration'[p] = configuration[p]]_vars

\* C15 witness: add_property was called on a key the walk had bound, with a
\* value other than the bound one, and failed.
C15_Witness ==
    /\ last.op = "add_property"
    /\ last.err = "DuplicateBindingError"
    /\ last.key \in DOMAIN attribute_name_key_map
    /\ properties[last.key] # last.value

====
